---- MODULE Spec2Model ----
(***************************************************************************)
(* Model of the notebook deepseek-r1-distilled-llama-70b.ipynb: the three  *)
(* functions it defines (load_model, generate_text, clear_gpu_memory), the *)
(* notebook globals `model` and `tokenizer`, and the cells that call them. *)
(*                                                                         *)
(* The external framework (transformers / torch) is the environment: every *)
(* framework call either raises one of its errors or returns, and what it  *)
(* returns is chosen nondeterministically.  Each function is an operator   *)
(* that takes the framework's behaviour `fw` as an extra argument and      *)
(* yields the record of what the invocation did: the framework calls it    *)
(* made, in order, with the arguments it passed, what it printed, and      *)
(* whether it returned a value or raised.                                  *)
(*                                                                         *)
(* Python values are tagged with their type (str, list, tuple, NoneType).  *)
(* A text is a sequence of words.  temperature and top_p are kept in       *)
(* tenths (0.7 is 7).  An optional argument is <<>> when the caller omits  *)
(* it and <<v>> when the caller passes v.                                  *)
(***************************************************************************)
EXTENDS Integers, Sequences, FiniteSets, TLC

VARIABLES
    model,          \* notebook global `model` (line 107)
    tokenizer,      \* notebook global `tokenizer` (line 107)
    last,           \* the most recent function invocation and what it did
    pc,             \* next cell of a top-to-bottom run, or "interactive"
    completed,      \* cells of the run that finished without raising
    clears,         \* number of clear_gpu_memory invocations so far
    repeat,         \* "differ": two identical generate_text calls in a row disagreed
    device_count,   \* torch.cuda.device_count() of this machine
    cuda_available, \* torch.cuda.is_available() of this machine
    conforming      \* the decode routine returns num_return_sequences rows

vars == <<model, tokenizer, last, pc, completed, clears, repeat,
          device_count, cuda_available, conforming>>

----------------------------------------------------------------------------
(* Bounds *)

MaxSeqs == 2
MaxDevices == 1
MaxClears == 2

----------------------------------------------------------------------------
(* Python values *)

NoneValue == [type |-> "NoneType"]
Unbound == [type |-> "unbound"]
Str(text) == [type |-> "str", text |-> text]
List(items) == [type |-> "list", items |-> items]
Tuple2(a, b) == [type |-> "tuple", first |-> a, second |-> b]

Omitted == <<>>
Given(v) == <<v>>

\* Binding of a keyword parameter that has a default value.
Bind(arg, default) == IF arg = Omitted THEN default ELSE arg[1]

\* How an invocation ends.
Return(calls, printed, value) ==
    [outcome |-> "return", calls |-> calls, printed |-> printed,
     value |-> value, error |-> "none"]
Raise(calls, printed, error) ==
    [outcome |-> "raise", calls |-> calls, printed |-> printed,
     value |-> NoneValue, error |-> error]

\* One framework call: the operation, the arguments passed, how it ended
\* ("ok" or the error raised) and, when it returned, what it returned.
Call(op, args, out, ret) ==
    [op |-> op, args |-> args, out |-> out,
     ret |-> IF out = "ok" THEN ret ELSE NoneValue]

----------------------------------------------------------------------------
(* load_model *)

DefaultModelName == "deepseek-ai/DeepSeek-R1-Distill-Llama-70B"
OtherModelName == "meta-llama/Llama-3.1-8B"
ModelNames == {DefaultModelName, OtherModelName}
ModelNameArgs == {Omitted} \cup {Given(n) : n \in ModelNames}

\* What the framework hands back for a checkpoint identifier.  Token ids
\* are 0 and 1; which of them is the end-of-sequence token depends on the
\* checkpoint.
TokenizerHandle(name) ==
    [kind |-> "tokenizer", name |-> name,
     eos_token_id |-> IF name = DefaultModelName THEN 0 ELSE 1]
ModelHandle(name, dtype, device_map, trust) ==
    [kind |-> "model", name |-> name, torch_dtype |-> dtype,
     device_map |-> device_map, trust_remote_code |-> trust,
     device |-> "first_device"]

LoadErrors == {"OSError", "OutOfMemoryError"}
LoadFw == [tokenizer : {"ok"} \cup LoadErrors, model : {"ok"} \cup LoadErrors]

\* Variants of load_model: one that loads the tokenizer a second time when
\* the first attempt raises, one that resolves the tokenizer from the
\* default literal whatever identifier was passed.
load_model_retrying(model_name_arg, fw) ==
    LET model_name == Bind(model_name_arg, DefaultModelName)
        tok == TokenizerHandle(model_name)
        mdl == ModelHandle(model_name, "float16", "auto", TRUE)
        cTok == Call("AutoTokenizer.from_pretrained",
                     [name |-> model_name], fw.tokenizer, tok)
        cMod == Call("AutoModelForCausalLM.from_pretrained",
                     [name |-> model_name, torch_dtype |-> "float16",
                      device_map |-> "auto", trust_remote_code |-> TRUE],
                     fw.model, mdl)
    IN  IF fw.tokenizer # "ok"
        THEN Raise(<<cTok, cTok>>, <<>>, fw.tokenizer)
        ELSE IF fw.model # "ok"
        THEN Raise(<<cTok, cMod>>, <<>>, fw.model)
        ELSE Return(<<cTok, cMod>>, <<>>, Tuple2(mdl, tok))
load_model_default_tokenizer(model_name_arg, fw) ==
    LET model_name == Bind(model_name_arg, DefaultModelName)
        tok == TokenizerHandle(DefaultModelName)
        mdl == ModelHandle(model_name, "float16", "auto", TRUE)
        cTok == Call("AutoTokenizer.from_pretrained",
                     [name |-> DefaultModelName], fw.tokenizer, tok)
        cMod == Call("AutoModelForCausalLM.from_pretrained",
                     [name |-> model_name, torch_dtype |-> "float16",
                      device_map |-> "auto", trust_remote_code |-> TRUE],
                     fw.model, mdl)
    IN  IF fw.tokenizer # "ok"
        THEN Raise(<<cTok>>, <<>>, fw.tokenizer)
        ELSE IF fw.model # "ok"
        THEN Raise(<<cTok, cMod>>, <<>>, fw.model)
        ELSE Return(<<cTok, cMod>>, <<>>, Tuple2(mdl, tok))

load_model(model_name_arg, fw) ==
    LET model_name == Bind(model_name_arg, DefaultModelName)
        tok == TokenizerHandle(model_name)
        mdl == ModelHandle(model_name, "float16", "auto", TRUE)
        cTok == Call("AutoTokenizer.from_pretrained",
                     [name |-> model_name], fw.tokenizer, tok)
        cMod == Call("AutoModelForCausalLM.from_pretrained",
                     [name |-> model_name, torch_dtype |-> "float16",
                      device_map |-> "auto", trust_remote_code |-> TRUE],
                     fw.model, mdl)
    IN  IF fw.tokenizer # "ok"
        THEN Raise(<<cTok>>, <<>>, fw.tokenizer)
        ELSE IF fw.model # "ok"
        THEN Raise(<<cTok, cMod>>, <<>>, fw.model)
        ELSE Return(<<cTok, cMod>>, <<>>, Tuple2(mdl, tok))

----------------------------------------------------------------------------
(* generate_text *)

DefaultMaxLength == 100
DefaultTemperature == 7
DefaultTopP == 9
DefaultNumReturnSequences == 1

Prompts == {"Explain quantum computing.", "Write a short story."}
Word(tok) == IF tok = 0 THEN "zero" ELSE "one"

\* Rows the decode routine may produce (token ids of one sequence).
Rows == {<<0, 1>>, <<1, 1>>}

RECURSIVE SeqsUpTo(_, _)
SeqsUpTo(S, n) ==
    IF n = 0 THEN {<<>>}
    ELSE LET shorter == SeqsUpTo(S, n - 1)
         IN  shorter \cup {Append(s, x) : s \in {t \in shorter : Len(t) = n - 1}, x \in S}

\* tokenizer(prompt, return_tensors="pt"): the token ids of the prompt.
Encode(tok, prompt) == [input_ids |-> <<tok.name, prompt>>, device |-> "cpu"]

\* tokenizer.decode(output, skip_special_tokens=True): the words of the
\* tokens of the row, the tokenizer's special token left out.
RECURSIVE Decode(_, _, _)
Decode(tok, row, skip_special_tokens) ==
    IF row = <<>> THEN <<>>
    ELSE IF skip_special_tokens /\ Head(row) = tok.eos_token_id
         THEN Decode(tok, Tail(row), skip_special_tokens)
         ELSE <<Word(Head(row))>> \o Decode(tok, Tail(row), skip_special_tokens)

\* Behaviour of the framework during one generate_text invocation: how the
\* encoding, the device transfer and the decode routine end, the rows the
\* decode routine produces, and the row (0: none, else the last one) whose
\* decoding raises.
GenFwFailing ==
    { [encode |-> "ValueError", to |-> "ok", generate |-> "ok",
       outputs |-> <<>>, decode_fail |-> 0],
      [encode |-> "ok", to |-> "OutOfMemoryError", generate |-> "ok",
       outputs |-> <<>>, decode_fail |-> 0],
      [encode |-> "ok", to |-> "ok", generate |-> "OutOfMemoryError",
       outputs |-> <<>>, decode_fail |-> 0] }
GenFwReturning(outs) ==
    UNION { { [encode |-> "ok", to |-> "ok", generate |-> "ok",
               outputs |-> o, decode_fail |-> k] : k \in {0, Len(o)} } :
            o \in outs }

\* The keyword arguments a caller passes: none, the three sampling
\* arguments out of range, and every sequence count with the sampling
\* arguments omitted.
Kwargs(max_length, temperature, top_p, num_return_sequences) ==
    [max_length |-> max_length, temperature |-> temperature,
     top_p |-> top_p, num_return_sequences |-> num_return_sequences]
GenArgs ==
    { Kwargs(Omitted, Omitted, Omitted, Omitted),
      Kwargs(Given(0), Given(-1), Given(0), Omitted) }
    \cup
    { Kwargs(Omitted, Omitted, Omitted, Given(n)) : n \in 0..MaxSeqs }

\* Variants of the model.generate arguments: max_length raised to at least
\* 1, sampling switched off when the temperature is not positive.
GenerateKwargsClamped(tok, input_ids, max_length, temperature, top_p, num_return_sequences) ==
    [input_ids |-> input_ids,
     max_length |-> IF max_length < 1 THEN 1 ELSE max_length,
     temperature |-> temperature,
     do_sample |-> TRUE,
     top_p |-> top_p,
     num_return_sequences |-> num_return_sequences,
     pad_token_id |-> tok.eos_token_id]
GenerateKwargsGreedy(tok, input_ids, max_length, temperature, top_p, num_return_sequences) ==
    [input_ids |-> input_ids,
     max_length |-> max_length,
     temperature |-> temperature,
     do_sample |-> temperature > 0,
     top_p |-> top_p,
     num_return_sequences |-> num_return_sequences,
     pad_token_id |-> tok.eos_token_id]

\* The arguments of the model.generate call.
GenerateKwargs(tok, input_ids, max_length, temperature, top_p, num_return_sequences) ==
    [input_ids |-> input_ids,
     max_length |-> max_length,
     temperature |-> temperature,
     do_sample |-> TRUE,
     top_p |-> top_p,
     num_return_sequences |-> num_return_sequences,
     pad_token_id |-> tok.eos_token_id]

\* generated_texts = [tokenizer.decode(output, ...) for output in outputs]
GeneratedTexts(tok, outputs) ==
    [i \in 1..Len(outputs) |-> Decode(tok, outputs[i], TRUE)]

\* Variants of the return expression: the list whatever the count, the
\* count tested for truth, the shape taken from the length of the list.
ReturnExpressionAlwaysList(generated_texts, num_return_sequences) ==
    [error |-> "none", value |-> List([i \in 1..Len(generated_texts) |->
                                          Str(generated_texts[i])])]
ReturnExpressionTruthy(generated_texts, num_return_sequences) ==
    IF num_return_sequences # 0
    THEN IF Len(generated_texts) = 0
         THEN [error |-> "IndexError", value |-> NoneValue]
         ELSE [error |-> "none", value |-> Str(generated_texts[1])]
    ELSE [error |-> "none", value |-> List([i \in 1..Len(generated_texts) |->
                                               Str(generated_texts[i])])]
ReturnExpressionByLength(generated_texts, num_return_sequences) ==
    IF Len(generated_texts) = 1
    THEN [error |-> "none", value |-> Str(generated_texts[1])]
    ELSE [error |-> "none", value |-> List([i \in 1..Len(generated_texts) |->
                                               Str(generated_texts[i])])]

\* return generated_texts[0] if num_return_sequences == 1 else generated_texts
\* (generated_texts[0] of an empty list raises IndexError).
ReturnExpression(generated_texts, num_return_sequences) ==
    IF num_return_sequences = 1
    THEN IF Len(generated_texts) = 0
         THEN [error |-> "IndexError", value |-> NoneValue]
         ELSE [error |-> "none", value |-> Str(generated_texts[1])]
    ELSE [error |-> "none", value |-> List([i \in 1..Len(generated_texts) |->
                                               Str(generated_texts[i])])]

generate_text(prompt, mdl, tok, a, fw) ==
    LET max_length == Bind(a.max_length, DefaultMaxLength)
        temperature == Bind(a.temperature, DefaultTemperature)
        top_p == Bind(a.top_p, DefaultTopP)
        num_return_sequences ==
            Bind(a.num_return_sequences, DefaultNumReturnSequences)
        inputs == Encode(tok, prompt)
        outputs == fw.outputs
        cEnc == Call("tokenizer.__call__",
                     [text |-> prompt, return_tensors |-> "pt"],
                     fw.encode, inputs)
        cTo == Call("BatchEncoding.to", [device |-> mdl.device], fw.to, inputs)
        cGen == Call("model.generate",
                     GenerateKwargs(tok, inputs.input_ids, max_length,
                                    temperature, top_p, num_return_sequences),
                     fw.generate, outputs)
        failing == fw.decode_fail \in 1..Len(outputs)
        ndec == IF failing THEN fw.decode_fail ELSE Len(outputs)
        cDec == [i \in 1..ndec |->
                    Call("tokenizer.decode",
                         [output |-> outputs[i], skip_special_tokens |-> TRUE],
                         IF failing /\ i = ndec THEN "ValueError" ELSE "ok",
                         Str(Decode(tok, outputs[i], TRUE)))]
        calls == <<cEnc, cTo, cGen>> \o cDec
        ret == ReturnExpression(GeneratedTexts(tok, outputs),
                                num_return_sequences)
    IN  IF fw.encode # "ok" THEN Raise(<<cEnc>>, <<>>, fw.encode)
        ELSE IF fw.to # "ok" THEN Raise(<<cEnc, cTo>>, <<>>, fw.to)
        ELSE IF fw.generate # "ok" THEN Raise(<<cEnc, cTo, cGen>>, <<>>, fw.generate)
        ELSE IF failing THEN Raise(calls, <<>>, "ValueError")
        ELSE IF ret.error # "none" THEN Raise(calls, <<>>, ret.error)
        ELSE Return(calls, <<>>, ret.value)

----------------------------------------------------------------------------
(* clear_gpu_memory *)

\* gc.collect() and torch.cuda.empty_cache() return normally on every
\* machine (empty_cache does nothing when CUDA was never initialised).
\* Variant without the availability test, reporting the current device
\* when the machine has none.
MemoryLinesUnguarded(available, ndev) ==
    [i \in 1..(IF ndev = 0 THEN 1 ELSE ndev) |->
        [text |-> "GPU memory allocated", gpu |-> i - 1]]

\* The lines printed, one per device, when an accelerator is available.
MemoryLines(available, ndev) ==
    IF available
    THEN [i \in 1..ndev |-> [text |-> "GPU memory allocated", gpu |-> i - 1]]
    ELSE <<>>

\* Variant that returns the lines instead of only printing them.
clear_gpu_memory_returning(available, ndev) ==
    LET lines == MemoryLines(available, ndev)
    IN  Return(<<Call("gc.collect", [none |-> TRUE], "ok", NoneValue),
                 Call("torch.cuda.empty_cache", [none |-> TRUE], "ok", NoneValue),
                 Call("torch.cuda.is_available", [none |-> TRUE], "ok", NoneValue)>>,
               lines, List(lines))

clear_gpu_memory(available, ndev) ==
    LET cGc == Call("gc.collect", [none |-> TRUE], "ok", NoneValue)
        cEmpty == Call("torch.cuda.empty_cache", [none |-> TRUE], "ok", NoneValue)
        cAvail == Call("torch.cuda.is_available", [none |-> TRUE], "ok", NoneValue)
        lines == MemoryLines(available, ndev)
        cMem == [i \in 1..Len(lines) |->
                    Call("torch.cuda.memory_allocated",
                         [device |-> lines[i].gpu], "ok", NoneValue)]
    IN  Return(<<cGc, cEmpty, cAvail>> \o cMem, lines, NoneValue)

----------------------------------------------------------------------------
(* The environment *)

\* The rows model.generate may hand back when asked for n sequences for
\* one prompt.  A framework that honours num_return_sequences hands back
\* n rows; otherwise any number of rows up to MaxSeqs.
Outputs(n) ==
    IF conforming
    THEN {o \in SeqsUpTo(Rows, MaxSeqs) : Len(o) = n}
    ELSE SeqsUpTo(Rows, MaxSeqs)

GenFw(a) ==
    GenFwFailing \cup
    GenFwReturning(Outputs(Bind(a.num_return_sequences,
                                DefaultNumReturnSequences)))

Invocation(fn, args, res) == [fn |-> fn, args |-> args, res |-> res]
GenCallArgs(prompt, a) ==
    [prompt |-> prompt, model |-> model, tokenizer |-> tokenizer, kw |-> a]

\* "differ" when this generate_text invocation and the one right before it
\* had the same arguments, both returned, and returned different values.
Repeat(args, res) ==
    IF /\ last.fn = "generate_text" /\ last.args = args
       /\ last.res.outcome = "return" /\ res.outcome = "return"
    THEN IF last.res.value = res.value THEN "none" ELSE "differ"
    ELSE "none"

MachineInit ==
    /\ device_count \in 0..MaxDevices
    /\ cuda_available = (device_count > 0)

KernelInit ==
    /\ model = Unbound
    /\ tokenizer = Unbound
    /\ last = Invocation("none", [none |-> TRUE], Return(<<>>, <<>>, NoneValue))
    /\ completed = {}
    /\ clears = 0
    /\ repeat = "none"

----------------------------------------------------------------------------
(* Calls made from the notebook, in any order *)

\* model, tokenizer = load_model(...)
CallLoadModel ==
    /\ pc = "interactive"
    /\ \E name \in ModelNameArgs, fw \in LoadFw :
         LET res == load_model(name, fw)
         IN  /\ last' = Invocation("load_model", [model_name |-> name], res)
             /\ IF res.outcome = "return"
                THEN /\ model' = res.value.first
                     /\ tokenizer' = res.value.second
                ELSE UNCHANGED <<model, tokenizer>>
    /\ repeat' = "none"
    /\ UNCHANGED <<pc, completed, clears, device_count, cuda_available, conforming>>

\* generate_text(prompt, model, tokenizer, ...)
CallGenerateText ==
    /\ pc = "interactive"
    /\ model # Unbound
    /\ tokenizer # Unbound
    /\ \E prompt \in Prompts, a \in GenArgs :
         \E fw \in GenFw(a) :
           LET res == generate_text(prompt, model, tokenizer, a, fw)
               args == GenCallArgs(prompt, a)
           IN  /\ last' = Invocation("generate_text", args, res)
               /\ repeat' = Repeat(args, res)
    /\ UNCHANGED <<model, tokenizer, pc, completed, clears,
                   device_count, cuda_available, conforming>>

\* clear_gpu_memory()
CallClearGpuMemory ==
    /\ pc = "interactive"
    /\ clears < MaxClears
    /\ last' = Invocation("clear_gpu_memory", [none |-> TRUE],
                          clear_gpu_memory(cuda_available, device_count))
    /\ clears' = clears + 1
    /\ repeat' = "none"
    /\ UNCHANGED <<model, tokenizer, pc, completed,
                   device_count, cuda_available, conforming>>

Init ==
    /\ MachineInit
    /\ KernelInit
    /\ pc = "interactive"
    /\ conforming = FALSE

InitConforming ==
    /\ MachineInit
    /\ KernelInit
    /\ pc = "interactive"
    /\ conforming = TRUE

Next == CallLoadModel \/ CallGenerateText \/ CallClearGpuMemory

Spec == Init /\ [][Next]_vars

SpecConforming == InitConforming /\ [][Next]_vars

----------------------------------------------------------------------------
(* The notebook run top to bottom *)

CellOrder ==
    <<"install", "verify", "load", "define_generate_text",
      "example_5_1", "example_5_2", "example_5_3", "example_5_4", "cleanup">>
ExampleCells == {"example_5_1", "example_5_2", "example_5_3", "example_5_4"}

\* The generate_text call of each example cell.
Example(cell) ==
    CASE cell = "example_5_1" ->
           [prompt |-> "Explain the concept of quantum computing in simple terms.",
            kw |-> [max_length |-> Given(150), temperature |-> Omitted,
                    top_p |-> Omitted, num_return_sequences |-> Omitted]]
      [] cell = "example_5_2" ->
           [prompt |-> "Write a short story about a robot discovering emotions.",
            kw |-> [max_length |-> Given(200), temperature |-> Given(8),
                    top_p |-> Omitted, num_return_sequences |-> Omitted]]
      [] cell = "example_5_3" ->
           [prompt |-> "Write a Python function to calculate the Fibonacci sequence up to n terms.",
            kw |-> [max_length |-> Given(250), temperature |-> Given(4),
                    top_p |-> Omitted, num_return_sequences |-> Omitted]]
      [] cell = "example_5_4" ->
           [prompt |-> "Summarize the following text in 2-3 sentences:",
            kw |-> [max_length |-> Given(100), temperature |-> Given(3),
                    top_p |-> Omitted, num_return_sequences |-> Omitted]]

Following(cell) ==
    LET i == CHOOSE j \in 1..Len(CellOrder) : CellOrder[j] = cell
    IN  IF i = Len(CellOrder) THEN "done" ELSE CellOrder[i + 1]

\* Variant in which the run goes on after a cell that raised.
AfterCellContinuing(cell, raised) == Following(cell)

\* The run goes on to the following cell, and stops at the first cell that
\* raises.
AfterCell(cell, raised) == IF raised THEN "error" ELSE Following(cell)
Completed(cell, raised) == IF raised THEN completed ELSE completed \cup {cell}

\* Cells that call none of the three functions: the pip cell, whose shell
\* commands never raise in the kernel, and the cell defining generate_text.
CellNoCall ==
    /\ pc \in {"install", "define_generate_text"}
    /\ pc' = AfterCell(pc, FALSE)
    /\ completed' = Completed(pc, FALSE)
    /\ UNCHANGED <<model, tokenizer, last, clears, repeat,
                   device_count, cuda_available, conforming>>

\* import torch, transformers and the diagnostic prints; the imports raise
\* when the installation failed.
CellVerify ==
    /\ pc = "verify"
    /\ \E imported \in BOOLEAN :
         /\ pc' = AfterCell(pc, ~imported)
         /\ completed' = Completed(pc, ~imported)
    /\ UNCHANGED <<model, tokenizer, last, clears, repeat,
                   device_count, cuda_available, conforming>>

\* model, tokenizer = load_model()
CellLoad ==
    /\ pc = "load"
    /\ \E fw \in LoadFw :
         LET res == load_model(Omitted, fw)
         IN  /\ last' = Invocation("load_model", [model_name |-> Omitted], res)
             /\ IF res.outcome = "return"
                THEN /\ model' = res.value.first
                     /\ tokenizer' = res.value.second
                ELSE UNCHANGED <<model, tokenizer>>
             /\ pc' = AfterCell(pc, res.outcome = "raise")
             /\ completed' = Completed(pc, res.outcome = "raise")
    /\ UNCHANGED <<clears, repeat, device_count, cuda_available, conforming>>

\* response = generate_text(prompt, model, tokenizer, ...); the names model
\* and tokenizer are looked up first, which raises NameError when the load
\* cell never bound them.
CellExample ==
    /\ pc \in ExampleCells
    /\ IF model = Unbound \/ tokenizer = Unbound
       THEN /\ last' = Invocation("name_lookup", [name |-> "model"],
                                  Raise(<<>>, <<>>, "NameError"))
            /\ pc' = AfterCell(pc, TRUE)
            /\ completed' = Completed(pc, TRUE)
       ELSE \E fw \in GenFw(Example(pc).kw) :
              LET ex == Example(pc)
                  res == generate_text(ex.prompt, model, tokenizer, ex.kw, fw)
              IN  /\ last' = Invocation("generate_text",
                                        GenCallArgs(ex.prompt, ex.kw), res)
                  /\ pc' = AfterCell(pc, res.outcome = "raise")
                  /\ completed' = Completed(pc, res.outcome = "raise")
    /\ UNCHANGED <<model, tokenizer, clears, repeat,
                   device_count, cuda_available, conforming>>

\* def clear_gpu_memory ... ; clear_gpu_memory()
CellCleanup ==
    /\ pc = "cleanup"
    /\ LET res == clear_gpu_memory(cuda_available, device_count)
       IN  /\ last' = Invocation("clear_gpu_memory", [none |-> TRUE], res)
           /\ pc' = AfterCell(pc, res.outcome = "raise")
           /\ completed' = Completed(pc, res.outcome = "raise")
    /\ clears' = clears + 1
    /\ UNCHANGED <<model, tokenizer, repeat,
                   device_count, cuda_available, conforming>>

InitRun ==
    /\ MachineInit
    /\ KernelInit
    /\ pc = "install"
    /\ conforming \in BOOLEAN

NextRun == CellNoCall \/ CellVerify \/ CellLoad \/ CellExample \/ CellCleanup

SpecRun == InitRun /\ [][NextRun]_vars

----------------------------------------------------------------------------
(* Properties of generate_text's result *)

GenInvoked == last.fn = "generate_text"
Returned == last.res.outcome = "return"
Raised == last.res.outcome = "raise"
Calls == last.res.calls
Kw == last.args.kw

\* The decode routine was called and returned its rows.
DecodeRoutineReturned ==
    /\ GenInvoked
    /\ Len(Calls) >= 3
    /\ Calls[3].op = "model.generate"
    /\ Calls[3].out = "ok"
ProducedRows == Calls[3].ret

\* The i-th row was handed to tokenizer.decode, which returned its text.
DecodedRow(i) ==
    /\ Len(Calls) >= 3 + i
    /\ Calls[3 + i].op = "tokenizer.decode"
    /\ Calls[3 + i].args.output = ProducedRows[i]
    /\ Calls[3 + i].out = "ok"
TextOfRow(i) == Calls[3 + i].ret

RequestedOne == Kw.num_return_sequences \in {Omitted, Given(1)}

\* C1: a generate_text call with num_return_sequences = 1 (passed or by
\* default) that returns, returns one str, the decoding of the first row
\* the decode routine produced, for every prompt and other arguments.
C1_SingleString ==
    (GenInvoked /\ RequestedOne /\ Returned) =>
        /\ last.res.value.type = "str"
        /\ DecodeRoutineReturned
        /\ DecodedRow(1)
        /\ last.res.value = TextOfRow(1)

C1_Witness ==
    /\ GenInvoked /\ Returned
    /\ Kw.num_return_sequences = Given(1)
    /\ last.args.prompt = "Write a short story."
    /\ Len(ProducedRows) = 2
    /\ last.res.value = Str(<<"one">>)

\* C2: a generate_text call with num_return_sequences = N > 1 that returns,
\* returns a list of exactly N str, the i-th being the decoding of the i-th
\* row the decode routine produced.
C2_ListOfN ==
    (GenInvoked /\ Returned /\ Kw.num_return_sequences # Omitted
       /\ Bind(Kw.num_return_sequences, 0) > 1) =>
        /\ last.res.value.type = "list"
        /\ Len(last.res.value.items) = Kw.num_return_sequences[1]
        /\ DecodeRoutineReturned
        /\ Len(ProducedRows) = Len(last.res.value.items)
        /\ \A i \in 1..Len(last.res.value.items) :
              /\ DecodedRow(i)
              /\ last.res.value.items[i] = TextOfRow(i)
              /\ last.res.value.items[i].type = "str"

C2_Witness ==
    /\ GenInvoked /\ Returned
    /\ Kw.num_return_sequences = Given(2)
    /\ last.res.value = List(<<Str(<<"one", "one">>), Str(<<"one">>)>>)

\* C10: once the rows are decoded, the shape of the result depends only on
\* the test num_return_sequences == 1: with 1 the first text is returned
\* and the others dropped (IndexError when there is none); with any other
\* value, 0 included, the list of all the texts is returned, whatever its
\* length.
AllRowsDecoded ==
    /\ DecodeRoutineReturned
    /\ Len(Calls) = 3 + Len(ProducedRows)
    /\ \A i \in 1..Len(ProducedRows) : DecodedRow(i)

C10_ShapeByRequestOnly ==
    AllRowsDecoded =>
        IF RequestedOne
        THEN IF Len(ProducedRows) = 0
             THEN Raised /\ last.res.error = "IndexError"
             ELSE Returned /\ last.res.value = TextOfRow(1)
        ELSE /\ Returned
             /\ last.res.value.type = "list"
             /\ Len(last.res.value.items) = Len(ProducedRows)
             /\ \A i \in 1..Len(ProducedRows) :
                   last.res.value.items[i] = TextOfRow(i)

C10_Witness ==
    /\ AllRowsDecoded
    /\ Kw.num_return_sequences = Given(2)
    /\ Len(ProducedRows) = 1
    /\ Returned
    /\ last.res.value = List(<<Str(<<"one">>)>>)

----------------------------------------------------------------------------
(* Properties of the framework calls *)

EncodedAndMoved ==
    /\ GenInvoked
    /\ Len(Calls) >= 2
    /\ Calls[1].out = "ok"
    /\ Calls[2].out = "ok"

\* C4: once the prompt is encoded, generate_text calls the decode routine
\* with max_length, temperature, top_p and num_return_sequences equal to
\* what the caller passed (100, 0.7, 0.9 and 1 where omitted), out-of-range
\* values included, and raises nothing of its own on account of a value.
C4_ForwardedUnchanged ==
    EncodedAndMoved =>
        /\ Len(Calls) >= 3
        /\ Calls[3].op = "model.generate"
        /\ Calls[3].args.max_length =
              (IF Kw.max_length = Omitted THEN 100 ELSE Kw.max_length[1])
        /\ Calls[3].args.temperature =
              (IF Kw.temperature = Omitted THEN 7 ELSE Kw.temperature[1])
        /\ Calls[3].args.top_p =
              (IF Kw.top_p = Omitted THEN 9 ELSE Kw.top_p[1])
        /\ Calls[3].args.num_return_sequences =
              (IF Kw.num_return_sequences = Omitted THEN 1
               ELSE Kw.num_return_sequences[1])
        /\ Raised => \/ Calls[Len(Calls)].out = last.res.error
                     \/ last.res.error = "IndexError"

C4_Witness ==
    /\ EncodedAndMoved
    /\ Kw.max_length = Given(0)
    /\ Kw.temperature = Given(-1)
    /\ Kw.top_p = Given(0)
    /\ Calls[3].args.max_length = 0
    /\ Calls[3].args.temperature = -1
    /\ Returned

\* C9: every generate_text call that gets to the decode routine calls it
\* with do_sample true and pad_token_id equal to the eos_token_id of the
\* tokenizer it was given, whatever the caller's arguments.
C9_SamplingAlwaysOn ==
    EncodedAndMoved =>
        /\ Len(Calls) >= 3
        /\ Calls[3].op = "model.generate"
        /\ Calls[3].args.do_sample = TRUE
        /\ Calls[3].args.pad_token_id = last.args.tokenizer.eos_token_id

\* Two identical calls in a row, sampling arguments out of range, that
\* returned different texts.
C9_Witness ==
    /\ EncodedAndMoved
    /\ repeat = "differ"
    /\ Kw.temperature = Given(-1)
    /\ Calls[3].args.do_sample = TRUE
    /\ last.args.tokenizer.eos_token_id = 1

\* C7: load_model loads the tokenizer first, then the model, both from the
\* identifier passed (the default literal when omitted); when it returns it
\* returns the pair (model handle, tokenizer handle); when the tokenizer
\* load raises, the model load is not attempted and nothing is returned.
C7_LoadedPair ==
    (last.fn = "load_model") =>
        LET name == IF last.args.model_name = Omitted
                    THEN "deepseek-ai/DeepSeek-R1-Distill-Llama-70B"
                    ELSE last.args.model_name[1]
        IN  /\ Len(Calls) >= 1
            /\ Calls[1].op = "AutoTokenizer.from_pretrained"
            /\ Calls[1].args.name = name
            /\ Calls[1].out # "ok" =>
                  /\ Len(Calls) = 1
                  /\ Raised
                  /\ last.res.value = NoneValue
            /\ Calls[1].out = "ok" =>
                  /\ Len(Calls) = 2
                  /\ Calls[2].op = "AutoModelForCausalLM.from_pretrained"
                  /\ Calls[2].args.name = name
            /\ Returned =>
                  /\ last.res.value.type = "tuple"
                  /\ last.res.value.first = Calls[2].ret
                  /\ last.res.value.first.kind = "model"
                  /\ last.res.value.first.name = name
                  /\ last.res.value.second = Calls[1].ret
                  /\ last.res.value.second.kind = "tokenizer"
                  /\ last.res.value.second.name = name

C7_Witness ==
    /\ last.fn = "load_model"
    /\ last.args.model_name = Given(OtherModelName)
    /\ Returned
    /\ model.name = OtherModelName
    /\ tokenizer.name = OtherModelName

\* A framework call that raised is the last call of the invocation, and
\* the invocation raises that same error and returns nothing.
FailuresReachCaller ==
    \A i \in 1..Len(Calls) :
        Calls[i].out # "ok" =>
            /\ i = Len(Calls)
            /\ Raised
            /\ last.res.error = Calls[i].out
            /\ last.res.value = NoneValue

----------------------------------------------------------------------------
(* Properties of clear_gpu_memory and of the run *)

\* C3: without an accelerator clear_gpu_memory collects garbage, clears the
\* cache, prints no memory line and returns normally.
C3_NoAcceleratorNoRaise ==
    (last.fn = "clear_gpu_memory" /\ ~cuda_available) =>
        /\ Returned
        /\ last.res.printed = <<>>
        /\ Len(Calls) = 3
        /\ Calls[1].op = "gc.collect"
        /\ Calls[2].op = "torch.cuda.empty_cache"
        /\ Calls[3].op = "torch.cuda.is_available"

C3_Witness ==
    /\ last.fn = "clear_gpu_memory"
    /\ ~cuda_available
    /\ device_count = 0
    /\ Returned

\* C6: every clear_gpu_memory call, whenever it is made, returns None
\* without raising and leaves the notebook's model and tokenizer as they
\* were; every generate_text call is made on those same handles.
C6_ClearIsSafe ==
    [][ /\ (clears' # clears) =>
              /\ last'.fn = "clear_gpu_memory"
              /\ last'.res.outcome = "return"
              /\ last'.res.value = NoneValue
              /\ model' = model
              /\ tokenizer' = tokenizer
        /\ (last'.fn = "generate_text") =>
              /\ model # Unbound
              /\ last'.args.model = model
              /\ last'.args.tokenizer = tokenizer
              /\ model' = model
              /\ tokenizer' = tokenizer ]_vars

C6_Witness ==
    /\ clears >= 2
    /\ GenInvoked
    /\ Returned
    /\ last.args.model = model
    /\ last.args.tokenizer = tokenizer

\* C8: in a run top to bottom that stops at the first error,
\* clear_gpu_memory is invoked only after the load cell and the four
\* example cells completed; a run that stopped on an error never invoked it.
C8_CleanupOnlyAfterSuccess ==
    /\ (clears > 0) => ({"load"} \cup ExampleCells) \subseteq completed
    /\ (pc = "error") => clears = 0

C8_Witness ==
    /\ pc = "error"
    /\ GenInvoked
    /\ Raised
    /\ model # Unbound
    /\ "load" \in completed
    /\ clears = 0

====
